---- MODULE Spec2Model ----
(***************************************************************************)
(* Declarative schema migration for SQLite (migrate.ts): dumbMigrateDb,    *)
(* DBMigrator.migrate, DBMigrator.migratePragma, logExecute, normaliseSql. *)
(*                                                                         *)
(* SQL texts are sequences of one-character strings, so that the regular   *)
(* expressions of the program act on characters as they do in the code.    *)
(* The relational engine is modelled by what it does with the statements   *)
(* the program sends: it parses CREATE texts into a name and a column      *)
(* list, keeps the text in its catalog (sqlite_master), and raises an      *)
(* error where SQLite raises one.                                          *)
(***************************************************************************)
EXTENDS Integers, Sequences, FiniteSets, TLC

\* the empty text stands for JavaScript's undefined / SQL NULL
NoText == << >>

\* ---------------------------------------------------------------- bounds
MaxRuns == 2        \* migrate calls made one after the other on one database
MaxRows == 1        \* rows held by a live table at the start

\* ------------------------------------------------------------ characters
WordChars ==
  {"a","b","c","d","e","f","g","h","i","j","k","l","m","n","o","p","q","r",
   "s","t","u","v","w","x","y","z",
   "A","B","C","D","E","F","G","H","I","J","K","L","M","N","O","P","Q","R",
   "S","T","U","V","W","X","Y","Z",
   "0","1","2","3","4","5","6","7","8","9","_"}

IsWord(c) == c \in WordChars

IsSpace(c) == c \in {" ", "\n", "\t", "\r"}

PunctChars == {"(", ")", ","}

\* first position >= i of s holding a newline, 0 when there is none
RECURSIVE NextNewline(_, _)
NextNewline(s, i) ==
  IF i > Len(s) THEN 0
  ELSE IF s[i] = "\n" THEN i ELSE NextNewline(s, i + 1)

\* first position >= i of s that does not hold a whitespace character
RECURSIVE SkipSpace(_, _)
SkipSpace(s, i) ==
  IF i > Len(s) THEN i
  ELSE IF IsSpace(s[i]) THEN SkipSpace(s, i + 1) ELSE i

\* first position >= i of s that does not hold the blank " "
RECURSIVE SkipBlank(_, _)
SkipBlank(s, i) ==
  IF i > Len(s) THEN i
  ELSE IF s[i] = " " THEN SkipBlank(s, i + 1) ELSE i

\* first position >= i of s that does not hold a word character
RECURSIVE SkipWord(_, _)
SkipWord(s, i) ==
  IF i > Len(s) THEN i
  ELSE IF IsWord(s[i]) THEN SkipWord(s, i + 1) ELSE i

\* ---------------------------------------------------------- normaliseSql
\* sql.replace(/--[^\n]*\n/g, "")
RECURSIVE StripComments(_, _)
StripComments(s, i) ==
  IF i > Len(s) THEN << >>
  ELSE IF /\ i < Len(s)
          /\ s[i] = "-"
          /\ s[i + 1] = "-"
          /\ NextNewline(s, i + 2) # 0
       THEN StripComments(s, NextNewline(s, i + 2) + 1)
       ELSE <<s[i]>> \o StripComments(s, i + 1)

\* sql.replace(/\s+/g, " ")
RECURSIVE CollapseSpace(_, _)
CollapseSpace(s, i) ==
  IF i > Len(s) THEN << >>
  ELSE IF IsSpace(s[i])
       THEN <<" ">> \o CollapseSpace(s, SkipSpace(s, i))
       ELSE <<s[i]>> \o CollapseSpace(s, i + 1)

\* sql.replace(/ *([(),]) */g, "$1")
RECURSIVE TightenPunct(_, _)
TightenPunct(s, i) ==
  IF i > Len(s) THEN << >>
  ELSE LET j == SkipBlank(s, i)
       IN  IF j <= Len(s) /\ s[j] \in PunctChars
           THEN <<s[j]>> \o TightenPunct(s, SkipBlank(s, j + 1))
           ELSE <<s[i]>> \o TightenPunct(s, i + 1)

\* sql.replace(/"(\w+)"/g, "$1")
RECURSIVE Unquote(_, _)
Unquote(s, i) ==
  IF i > Len(s) THEN << >>
  ELSE LET j == SkipWord(s, i + 1)
       IN  IF s[i] = "\"" /\ j > i + 1 /\ j <= Len(s) /\ s[j] = "\""
           THEN SubSeq(s, i + 1, j - 1) \o Unquote(s, j + 1)
           ELSE <<s[i]>> \o Unquote(s, i + 1)

\* String.prototype.trim
RECURSIVE TrimRight(_)
TrimRight(s) ==
  IF s = << >> THEN s
  ELSE IF IsSpace(s[Len(s)]) THEN TrimRight(SubSeq(s, 1, Len(s) - 1)) ELSE s

Trim(s) == TrimRight(SubSeq(s, SkipSpace(s, 1), Len(s)))

normaliseSql(sql) ==
  IF sql = << >> THEN << >>
  ELSE Trim(Unquote(TightenPunct(CollapseSpace(StripComments(sql, 1), 1), 1), 1))

\* ------------------------------------------------- temporary-name rewrite
MigrationSuffix == <<"_","m","i","g","r","a","t","i","o","n","_","n","e","w">>

TempName(tblName) == tblName \o MigrationSuffix

\* the regular expression's \b at the gap in front of position i of s
WordBoundary(s, i) ==
  LET before == i > 1 /\ i - 1 <= Len(s) /\ IsWord(s[i - 1])
      after  == i >= 1 /\ i <= Len(s) /\ IsWord(s[i])
  IN  before # after

MatchesAt(s, i, w) ==
  /\ i + Len(w) - 1 <= Len(s)
  /\ SubSeq(s, i, i + Len(w) - 1) = w

\* createTableSql.replace(new RegExp(`\\b${tblName}\\b`, "g"), `${tblName}_migration_new`)
RECURSIVE ReplaceWord(_, _, _)
ReplaceWord(s, i, tblName) ==
  IF i > Len(s) THEN << >>
  ELSE IF /\ MatchesAt(s, i, tblName)
          /\ WordBoundary(s, i)
          /\ WordBoundary(s, i + Len(tblName))
       THEN TempName(tblName) \o ReplaceWord(s, i + Len(tblName), tblName)
       ELSE <<s[i]>> \o ReplaceWord(s, i + 1, tblName)

NewTableSql(createTableSql, tblName) == ReplaceWord(createTableSql, 1, tblName)

\* tableName.endsWith('_migration_new')
EndsWithSuffix(name) ==
  /\ Len(name) >= Len(MigrationSuffix)
  /\ SubSeq(name, Len(name) - Len(MigrationSuffix) + 1, Len(name)) = MigrationSuffix

\* name LIKE '%_migration_new': in LIKE, % is any run of characters and _ is
\* any one character, so the pattern asks for one arbitrary character
\* followed by "migration_new" (letter case is not modelled)
LikeMigrationNew(name) ==
  LET tail == SubSeq(MigrationSuffix, 2, Len(MigrationSuffix))
  IN  /\ Len(name) >= Len(tail) + 1
      /\ SubSeq(name, Len(name) - Len(tail) + 1, Len(name)) = tail

\* ------------------------------------------------------------- SQL texts
\* The statements the model's schemas and databases are made of.
T_name == <<"t">>
X_name == <<"x","m","i","g","r","a","t","i","o","n","_","n","e","w">>
I_name == <<"i">>
J_name == <<"j">>
C_name == <<"c">>

KwCreate  == <<"C","R","E","A","T","E">>
KwTable   == <<"T","A","B","L","E">>
KwIndex   == <<"I","N","D","E","X">>
KwOn      == <<"O","N">>
KwDefault == <<"D","E","F","A","U","L","T">>
KwReferences == <<"R","E","F","E","R","E","N","C","E","S">>
Sp        == <<" ">>

CreateTablePrefix == KwCreate \o Sp \o KwTable \o Sp
CreateIndexPrefix == KwCreate \o Sp \o KwIndex \o Sp

\* CREATE TABLE t (a, b)
SqlTA == CreateTablePrefix \o T_name \o <<" ","(","a",","," ","b",")">>
\* the same table written with a quoted name, a comment and other spacing
SqlTAc == CreateTablePrefix
          \o <<"\"","t","\"","("," ","-","-"," ","k","\n"," "," ","a",",","b"," ",")">>
\* CREATE TABLE t (a, b, c DEFAULT 7)
SqlTB == CreateTablePrefix \o T_name
         \o <<" ","(","a",","," ","b",","," ","c"," ">> \o KwDefault \o <<" ","7",")">>
\* CREATE TABLE xmigration_new (a)
SqlXA == CreateTablePrefix \o X_name \o <<" ","(","a",")">>
\* CREATE TABLE c (p REFERENCES t)
SqlC == CreateTablePrefix \o C_name \o <<" ","(","p"," ">> \o KwReferences
        \o Sp \o T_name \o <<")">>
\* CREATE INDEX i ON t (a)
SqlIA == CreateIndexPrefix \o I_name \o Sp \o KwOn \o Sp \o T_name \o <<" ","(","a",")">>
\* CREATE INDEX i ON t(a)
SqlIAc == CreateIndexPrefix \o I_name \o Sp \o KwOn \o Sp \o T_name \o <<"(","a",")">>
\* CREATE INDEX i ON t (b)
SqlIB == CreateIndexPrefix \o I_name \o Sp \o KwOn \o Sp \o T_name \o <<" ","(","b",")">>
\* CREATE INDEX j ON xmigration_new (a)
SqlJA == CreateIndexPrefix \o J_name \o Sp \o KwOn \o Sp \o X_name \o <<" ","(","a",")">>

\* ---------------------------------------------------------------- engine
\* first position >= i of s holding a double quote, Len(s)+1 when none
RECURSIVE NextQuote(_, _)
NextQuote(s, i) ==
  IF i > Len(s) THEN i
  ELSE IF s[i] = "\"" THEN i ELSE NextQuote(s, i + 1)

\* SQLite's tokenizer on the texts of the model: whitespace and comments
\* (-- to the end of the line or of the text) separate tokens, a quoted
\* identifier is one token without its quotes
RECURSIVE Tokens(_, _)
Tokens(s, i) ==
  IF i > Len(s) THEN << >>
  ELSE IF IsSpace(s[i]) THEN Tokens(s, i + 1)
  ELSE IF s[i] = "-" /\ i < Len(s) /\ s[i + 1] = "-"
       THEN LET n == NextNewline(s, i + 2)
            IN  IF n = 0 THEN << >> ELSE Tokens(s, n + 1)
  ELSE IF s[i] = "\""
       THEN LET j == NextQuote(s, i + 1)
            IN  <<SubSeq(s, i + 1, j - 1)>> \o Tokens(s, j + 1)
  ELSE IF IsWord(s[i])
       THEN LET j == SkipWord(s, i)
            IN  <<SubSeq(s, i, j - 1)>> \o Tokens(s, j)
  ELSE <<(<<s[i]>>)>> \o Tokens(s, i + 1)

\* the DEFAULT value of the column definition that holds token i, NoText
\* when the definition declares none
RECURSIVE DefaultOf(_, _)
DefaultOf(toks, i) ==
  IF i > Len(toks) \/ toks[i] = <<",">> \/ toks[i] = <<")">> THEN NoText
  ELSE IF toks[i] = KwDefault /\ i < Len(toks) THEN toks[i + 1]
  ELSE DefaultOf(toks, i + 1)

\* the table that the column definition holding token i REFERENCES, NoText
\* when the definition declares no foreign key
RECURSIVE ReferenceOf(_, _)
ReferenceOf(toks, i) ==
  IF i > Len(toks) \/ toks[i] = <<",">> \/ toks[i] = <<")">> THEN NoText
  ELSE IF toks[i] = KwReferences /\ i < Len(toks) THEN toks[i + 1]
  ELSE ReferenceOf(toks, i + 1)

\* the column definitions of a CREATE TABLE token list, from token i on
RECURSIVE ColumnDefs(_, _, _)
ColumnDefs(toks, i, first) ==
  IF i > Len(toks) \/ toks[i] = <<")">> THEN << >>
  ELSE IF toks[i] = <<",">> THEN ColumnDefs(toks, i + 1, TRUE)
  ELSE IF first
       THEN <<[name |-> toks[i], dflt |-> DefaultOf(toks, i + 1),
               ref |-> ReferenceOf(toks, i + 1)]>>
            \o ColumnDefs(toks, i + 1, FALSE)
       ELSE ColumnDefs(toks, i + 1, FALSE)

IsCreateTable(text) ==
  LET toks == Tokens(text, 1)
  IN  Len(toks) >= 6 /\ toks[1] = KwCreate /\ toks[2] = KwTable /\ toks[4] = <<"(">>

IsCreateIndex(text) ==
  LET toks == Tokens(text, 1)
  IN  Len(toks) >= 8 /\ toks[1] = KwCreate /\ toks[2] = KwIndex /\ toks[4] = KwOn

EmptyDb ==
  [tables |-> << >>, indices |-> << >>, user_version |-> 0, foreign_keys |-> 0]

TableNames(db) == DOMAIN db.tables
IndexNames(db) == DOMAIN db.indices

\* f without the keys in ks
Without(f, ks) == [k \in (DOMAIN f) \ ks |-> f[k]]

\* f with key k set to v
With(f, k, v) == [x \in (DOMAIN f) \cup {k} |-> IF x = k THEN v ELSE f[x]]

Ok(db) == [ok |-> TRUE, db |-> db]
Error(db) == [ok |-> FALSE, db |-> db]

\* CREATE TABLE: "table already exists" when the name is taken; the catalog
\* keeps the text as written
ExecCreateTable(db, text) ==
  LET toks == Tokens(text, 1)
      name == toks[3]
      defs == ColumnDefs(toks, 5, TRUE)
  IN  IF name \in TableNames(db) \/ name \in IndexNames(db) THEN Error(db)
      ELSE Ok([db EXCEPT !.tables =
                 With(db.tables, name,
                      [sql  |-> text,
                       cols |-> [k \in 1..Len(defs) |-> defs[k].name],
                       dflt |-> [k \in 1..Len(defs) |-> defs[k].dflt],
                       rows |-> << >>])])

\* CREATE INDEX: an error when the name is taken, the table is missing or a
\* column is not one of the table's
ExecCreateIndex(db, text) ==
  LET toks == Tokens(text, 1)
      name == toks[3]
      tbl  == toks[5]
      col  == toks[7]
  IN  IF \/ name \in IndexNames(db)
         \/ name \in TableNames(db)
         \/ tbl \notin TableNames(db)
      THEN Error(db)
      ELSE IF \A k \in DOMAIN db.tables[tbl].cols : db.tables[tbl].cols[k] # col
      THEN Error(db)
      ELSE Ok([db EXCEPT !.indices =
                 With(db.indices, name, [sql |-> text, tbl |-> tbl])])

IndicesOn(db, tbl) == {n \in IndexNames(db) : db.indices[n].tbl = tbl}

\* DROP TABLE takes the table's rows and indices with it
ExecDropTable(db, name) ==
  IF name \notin TableNames(db) THEN Error(db)
  ELSE Ok([db EXCEPT !.tables = Without(db.tables, {name}),
                     !.indices = Without(db.indices, IndicesOn(db, name))])

ExecDropTableIfExists(db, name) ==
  IF name \notin TableNames(db) THEN Ok(db) ELSE ExecDropTable(db, name)

ExecDropIndex(db, name) ==
  IF name \notin IndexNames(db) THEN Error(db)
  ELSE Ok([db EXCEPT !.indices = Without(db.indices, {name})])

ExecSetUserVersion(db, v) == Ok([db EXCEPT !.user_version = v])

\* INSERT INTO into (cols) SELECT cols FROM from: every row of the source,
\* the named columns copied, the other columns of the target at their
\* declared default
PositionOf(seq, x) == CHOOSE k \in DOMAIN seq : seq[k] = x

ExecInsertSelect(db, into, from, cols) ==
  IF into \notin TableNames(db) \/ from \notin TableNames(db) \/ cols = << >>
  THEN Error(db)
  ELSE LET src == db.tables[from]
           dst == db.tables[into]
           named == {cols[k] : k \in DOMAIN cols}
           copied(row) ==
             [k \in DOMAIN dst.cols |->
                IF dst.cols[k] \in named
                THEN row[PositionOf(src.cols, dst.cols[k])]
                ELSE dst.dflt[k]]
       IN  Ok([db EXCEPT !.tables[into].rows =
                 dst.rows \o [r \in DOMAIN src.rows |-> copied(src.rows[r])]])

\* the text of a table after ALTER TABLE ... RENAME TO: SQLite writes the
\* new name, double-quoted, in the place of the old one
RenamedSql(text, to) ==
  LET nameAt == SkipSpace(text, Len(CreateTablePrefix) + 1)
      quoted == text[nameAt] = "\""
      nameEnd == IF quoted THEN NextQuote(text, nameAt + 1) + 1
                 ELSE SkipWord(text, nameAt)
  IN  SubSeq(text, 1, nameAt - 1) \o <<"\"">> \o to \o <<"\"">>
      \o SubSeq(text, nameEnd, Len(text))

ExecRename(db, from, to) ==
  IF from \notin TableNames(db) \/ to \in TableNames(db) THEN Error(db)
  ELSE LET tbl == db.tables[from]
       IN  Ok([db EXCEPT
                 !.tables = With(Without(db.tables, {from}), to,
                                 [tbl EXCEPT !.sql = RenamedSql(tbl.sql, to)]),
                 !.indices = [n \in IndexNames(db) |->
                                IF db.indices[n].tbl = from
                                THEN [db.indices[n] EXCEPT !.tbl = to]
                                ELSE db.indices[n]]])

\* a statement as the program hands it to the engine
\* (INSERT and RENAME carry the source table's name in text)
Stmt(op, text, name, val, cols) ==
  [op |-> op, text |-> text, name |-> name, val |-> val, cols |-> cols]

SqlStmt(text) == Stmt("Sql", text, NoText, 0, << >>)
DropTableStmt(name) == Stmt("DropTable", NoText, name, 0, << >>)
DropTableIfExistsStmt(name) == Stmt("DropTableIfExists", NoText, name, 0, << >>)
DropIndexStmt(name) == Stmt("DropIndex", NoText, name, 0, << >>)
InsertSelectStmt(into, from, cols) == Stmt("InsertSelect", from, into, 0, cols)
RenameStmt(from, to) == Stmt("Rename", from, to, 0, << >>)
SetUserVersionStmt(v) == Stmt("SetUserVersion", NoText, NoText, v, << >>)
SetForeignKeysStmt(v) == Stmt("SetForeignKeys", NoText, NoText, v, << >>)

Exec(db, st) ==
  CASE st.op = "Sql" /\ IsCreateTable(st.text) -> ExecCreateTable(db, st.text)
    [] st.op = "Sql" /\ IsCreateIndex(st.text) -> ExecCreateIndex(db, st.text)
    [] st.op = "DropTable" -> ExecDropTable(db, st.name)
    [] st.op = "DropTableIfExists" -> ExecDropTableIfExists(db, st.name)
    [] st.op = "DropIndex" -> ExecDropIndex(db, st.name)
    [] st.op = "SetUserVersion" -> ExecSetUserVersion(db, st.val)
    [] st.op = "InsertSelect" -> ExecInsertSelect(db, st.name, st.text, st.cols)
    [] st.op = "Rename" -> ExecRename(db, st.text, st.name)
    [] st.op = "SetForeignKeys" -> Ok([db EXCEPT !.foreign_keys = st.val])
    [] OTHER -> Error(db)

\* Database.exec(schema): the statements of the schema text one after the
\* other; the first error ends the load
RECURSIVE ExecAll(_, _, _)
ExecAll(db, stmts, i) ==
  IF i > Len(stmts) THEN Ok(db)
  ELSE LET r == Exec(db, stmts[i])
       IN  IF r.ok THEN ExecAll(r.db, stmts, i + 1) ELSE Error(r.db)

\* ------------------------------------------------------------ the inputs
\* the rows a live table holds at the start: row r holds, in the column
\* named c, the text "c" followed by the digit of r
Digit(r) == IF r = 1 THEN "1" ELSE IF r = 2 THEN "2" ELSE "3"

InitialRows(cols, n) ==
  [r \in 1..n |-> [k \in DOMAIN cols |-> cols[k] \o <<Digit(r)>>]]

WithRows(db, name, n) ==
  IF name \in TableNames(db)
  THEN [db EXCEPT !.tables[name].rows = InitialRows(db.tables[name].cols, n)]
  ELSE db

\* the statements of a sequence of texts, the empty texts left out
RECURSIVE Present(_)
Present(texts) ==
  IF texts = << >> THEN << >>
  ELSE IF Head(texts) = NoText THEN Present(Tail(texts))
  ELSE <<SqlStmt(Head(texts))>> \o Present(Tail(texts))

\* the text an interrupted rebuild of t towards SqlTB leaves behind
SqlLeftover == NewTableSql(SqlTB, T_name)

\* the table xmigration_new always comes with its index j
LiveTexts ==
  { <<t, l, i, c>> \o x :
      t \in {NoText, SqlTA, SqlTAc, SqlTB},
      l \in {NoText, SqlLeftover},
      i \in {NoText, SqlIA, SqlIAc, SqlIB},
      c \in {NoText, SqlC},
      x \in {<< >>, <<SqlXA, SqlJA>>} }

SchemaTexts ==
  { <<t, i>> \o x :
      t \in {NoText, SqlTA, SqlTB},
      i \in {NoText, SqlIA},
      x \in {<< >>, <<SqlXA, SqlJA>>} }

\* the databases a call can be handed: every one the engine builds from
\* the texts without an error, each table of it holding MaxRows rows
LiveDatabases ==
  LET built == { ExecAll(EmptyDb, Present(txt), 1) : txt \in LiveTexts }
  IN  { WithRows(WithRows(WithRows(WithRows(b.db, T_name, MaxRows),
                                   TempName(T_name), MaxRows),
                          X_name, MaxRows), C_name, MaxRows) :
          b \in { d \in built : d.ok } }

\* the schema texts a call can be handed, as the sequence of their
\* statements; one whose index names a missing table does not load.  The
\* schemas that declare the foreign key of c are the ones that turn the
\* enforcement on
Schemas ==
  { Present(txt) \o pragmas :
      txt \in SchemaTexts,
      pragmas \in {<< >>, <<SetUserVersionStmt(1)>>} }
  \cup { Present(txt \o <<SqlC>>) \o <<SetForeignKeysStmt(1)>> :
           txt \in SchemaTexts }

\* ------------------------------------------------------------- the state
VARIABLES
  live,            \* the database being migrated (this.db)
  schema,          \* the schema text of the calls (this.schema)
  allowDeletions,  \* this.allowDeletions
  pristine,        \* the in-memory database built from the schema text
  nChanges,        \* this.nChanges
  changed,         \* the value dumbMigrateDb returned
  deferFk,         \* PRAGMA defer_foreign_keys of the live connection, now
  pc,              \* where the call stands
  err,             \* the error the call ended with
  runs,            \* calls started so far
  last,            \* how the call before this one ended
  pre,             \* the live database as it was when the call started
  executed,        \* the statements the call has run on the live database
  newTables, removedTables, modifiedTables,   \* still to be handled
  tblName,         \* the modified table being rebuilt
  indices,         \* the live indices as read before the index loops
  obsolete,        \* live indices still to be dropped
  wanted,          \* pristine indices still to be looked at
  recreate,        \* the changed index dropped and not yet created again
  leftoverTempTables, \* temporary tables still to be dropped
  openPristine,    \* in-memory databases opened and not closed
  input,           \* a text handed to normaliseSql
  variant,         \* the input written another way
  result,          \* normaliseSql(input)
  variantResult,   \* normaliseSql(variant)
  step             \* where the normalisation of the input stands

\* the state of the normalisation of one text
normVars == <<input, variant, result, variantResult, step>>

\* the state of the calls of dumbMigrateDb
migrateVars == <<live, schema, allowDeletions, pristine, nChanges, changed,
                 deferFk, pc, err, runs, last, pre, executed, newTables,
                 removedTables, modifiedTables, tblName, indices, obsolete,
                 wanted, recreate, leftoverTempTables, openPristine>>

vars == <<migrateVars, normVars>>


\* no call has been made on the live database
NoCall ==
  /\ pristine = EmptyDb
  /\ nChanges = 0
  /\ changed = FALSE
  /\ deferFk = FALSE
  /\ pc = "idle"
  /\ err = "none"
  /\ runs = 0
  /\ last = "none"
  /\ pre = live
  /\ executed = << >>
  /\ newTables = {}
  /\ removedTables = {}
  /\ modifiedTables = {}
  /\ tblName = NoText
  /\ indices = << >>
  /\ obsolete = {}
  /\ wanted = {}
  /\ recreate = NoText
  /\ leftoverTempTables = {}
  /\ openPristine = 0

Init ==
  /\ live \in LiveDatabases
  /\ schema \in Schemas
  /\ allowDeletions \in BOOLEAN
  /\ NoCall
  /\ input = NoText
  /\ variant = NoText
  /\ result = NoText
  /\ variantResult = NoText
  /\ step = "none"

\* ------------------------------------------------------------ logExecute
\* if (sql && sql.trim())
HasSql(st) == st.op # "Sql" \/ Trim(st.text) # << >>

\* db.run with the engine's error caught and the call going on
AfterErrorContinue(nextPc) == nextPc

\* db.run throws and nothing in the class catches: the call is over
AfterError(nextPc) == "failed"

\* runs the statement on the live database and counts it; an error of the
\* engine ends the call.  The connection is in autocommit mode: a statement
\* that runs ends its transaction, and with it PRAGMA defer_foreign_keys;
\* one that does not compile leaves the setting alone
LogExecute(st, nextPc) ==
  IF ~HasSql(st)
  THEN /\ pc' = nextPc
       /\ UNCHANGED <<live, nChanges, executed, err, deferFk>>
  ELSE LET r == Exec(live, st)
       IN  IF r.ok
           THEN /\ live' = r.db
                /\ nChanges' = nChanges + 1
                /\ executed' = Append(executed, st)
                /\ deferFk' = FALSE
                /\ pc' = nextPc
                /\ err' = err
           ELSE /\ pc' = AfterError(nextPc)
                /\ err' = "SqliteError"
                /\ UNCHANGED <<live, nChanges, executed, deferFk>>

\* -------------------------------------------------------- classification
\* every pristine table taken for new
NewTablesAll(tables, pristineTables) == DOMAIN pristineTables

\* newTables: the pristine names without the live names
NewTablesOf(tables, pristineTables) == DOMAIN pristineTables \ DOMAIN tables

\* removedTables with the two catalogs taken the wrong way round
RemovedTablesSwapped(tables, pristineTables) ==
  {n \in DOMAIN pristineTables \ DOMAIN tables : ~EndsWithSuffix(n)}

\* removedTables without the loop that takes the temporary tables out
RemovedTablesKeepTemp(tables, pristineTables) ==
  DOMAIN tables \ DOMAIN pristineTables

\* removedTables: the live names without the pristine names and without
\* the names that end in _migration_new
RemovedTablesOf(tables, pristineTables) ==
  {n \in DOMAIN tables \ DOMAIN pristineTables : ~EndsWithSuffix(n)}

\* modifiedTables with === in the place of !==
ModifiedTablesInverted(tables, pristineTables) ==
  {n \in DOMAIN pristineTables :
     /\ n \in DOMAIN tables
     /\ normaliseSql(tables[n].sql) = normaliseSql(pristineTables[n].sql)}

\* modifiedTables: the names on both sides whose normalised texts differ
ModifiedTablesOf(tables, pristineTables) ==
  {n \in DOMAIN pristineTables :
     /\ n \in DOMAIN tables
     /\ normaliseSql(tables[n].sql) # normaliseSql(pristineTables[n].sql)}

\* ---------------------------------------------------------------- actions
\* the constructor with the error of the schema load caught and dropped
AfterConstructorCaught(ok) == "constructed"

\* new DBMigrator(...) throws when the schema does not load, and dumbMigrateDb
\* does not get to migrator.migrate()
AfterConstructor(ok) == IF ok THEN "constructed" ELSE "failed"

\* a for loop left while its set still has members
LoopLeftEarly(set) == TRUE

\* the statement after a for loop runs when the loop has gone through its set
LoopDone(set) == set = {}

\* return migrator.nChanges >= 0
ReturnValueAtLeast(n) == n >= 0

\* return migrator.nChanges > 0
ReturnValue(n) == n > 0

\* dumbMigrateDb calls the constructor: the schema text is run on an empty
\* in-memory database
Construct ==
  /\ pc \in {"idle", "done", "failed"}
  /\ runs < MaxRuns
  /\ runs' = runs + 1
  /\ openPristine' = openPristine + 1
  /\ last' = IF pc = "idle" THEN "none" ELSE pc
  /\ pre' = live
  /\ executed' = << >>
  /\ nChanges' = 0
  /\ changed' = FALSE
  /\ newTables' = {}
  /\ removedTables' = {}
  /\ modifiedTables' = {}
  /\ tblName' = NoText
  /\ indices' = << >>
  /\ obsolete' = {}
  /\ wanted' = {}
  /\ recreate' = NoText
  /\ leftoverTempTables' = {}
  /\ LET r == ExecAll(EmptyDb, schema, 1)
     IN  /\ pristine' = r.db
         /\ pc' = AfterConstructor(r.ok)
         /\ err' = IF r.ok THEN "none" ELSE "SchemaLoadError"
  /\ UNCHANGED <<live, schema, allowDeletions, normVars, deferFk>>

\* the call goes on to its loops with the setting of the connection as it was
DeferForeignKeysLeftOut(setting) == setting

\* this.db.run("PRAGMA defer_foreign_keys = TRUE")
DeferForeignKeys(setting) == TRUE

\* migrate, up to the first statement: the three sets, the table deletion
\* guard, PRAGMA defer_foreign_keys
Classify ==
  /\ pc = "constructed"
  /\ LET removed == RemovedTablesOf(live.tables, pristine.tables)
     IN  IF removed # {} /\ ~allowDeletions
         THEN /\ pc' = "failed"
              /\ err' = "RefuseDeleteTables"
              /\ removedTables' = removed
              /\ UNCHANGED <<newTables, modifiedTables, deferFk>>
         ELSE /\ pc' = "tables"
              /\ err' = err
              /\ newTables' = NewTablesOf(live.tables, pristine.tables)
              /\ removedTables' = removed
              /\ modifiedTables' = ModifiedTablesOf(live.tables, pristine.tables)
              /\ deferFk' = DeferForeignKeys(deferFk)
  /\ UNCHANGED <<live, schema, allowDeletions, pristine,
                 openPristine, normVars, nChanges, changed,
                 runs, last, pre, executed, tblName, indices, obsolete, wanted,
                 recreate, leftoverTempTables>>

\* for (const tblName of newTables): Create table
CreateNewTable ==
  /\ pc = "tables"
  /\ \E n \in newTables :
       /\ newTables' = newTables \ {n}
       /\ LogExecute(SqlStmt(pristine.tables[n].sql), "tables")
  /\ UNCHANGED <<schema, allowDeletions, pristine,
                 openPristine, normVars, changed, runs, last, pre,
                 removedTables, modifiedTables, tblName, indices, obsolete,
                 wanted, recreate, leftoverTempTables>>

\* for (const tblName of removedTables): Drop table
DropRemovedTable ==
  /\ pc = "tables"
  /\ LoopDone(newTables)
  /\ \E n \in removedTables :
       /\ removedTables' = removedTables \ {n}
       /\ LogExecute(DropTableStmt(n), "tables")
  /\ UNCHANGED <<schema, allowDeletions, pristine,
                 openPristine, normVars, changed, runs, last, pre,
                 newTables, modifiedTables, tblName, indices, obsolete,
                 wanted, recreate, leftoverTempTables>>

\* for (const tblName of modifiedTables): create the table under its
\* temporary name
RebuildCreate ==
  /\ pc = "tables"
  /\ LoopDone(newTables)
  /\ LoopDone(removedTables)
  /\ \E n \in modifiedTables :
       /\ modifiedTables' = modifiedTables \ {n}
       /\ tblName' = n
       /\ LogExecute(SqlStmt(NewTableSql(pristine.tables[n].sql, n)), "columns")
  /\ UNCHANGED <<schema, allowDeletions, pristine,
                 openPristine, normVars, changed, runs, last, pre,
                 newTables, removedTables, indices, obsolete, wanted, recreate,
                 leftoverTempTables>>

\* this.db.prepare(`PRAGMA table_info(?)`): the argument of a pragma is a
\* name or a number in SQLite's grammar, never a bound parameter, so the
\* statement does not compile (near "?": syntax error) and prepare throws
TableInfoPrepares == FALSE

\* removedColumns: the live columns that the pristine table does not have
RemovedColumnsOf(cols, pristineCols) ==
  {cols[k] : k \in DOMAIN cols} \ {pristineCols[k] : k \in DOMAIN pristineCols}

\* Array.from(cols).filter(x => pristineCols.has(x))
CommonColumns(cols, pristineCols) ==
  LET InPristine(c) == c \in {pristineCols[k] : k \in DOMAIN pristineCols}
  IN  SelectSeq(cols, InPristine)

\* the rest of the loop body for the table whose temporary table was just
\* created: the two column queries, the column deletion guard, and the
\* copy, drop and rename statements
RebuildColumns ==
  /\ pc = "columns"
  /\ IF ~TableInfoPrepares
     THEN /\ pc' = "failed"
          /\ err' = "SqliteError"
          /\ UNCHANGED <<live, nChanges, executed, deferFk>>
     ELSE LET cols == live.tables[tblName].cols
              pristineCols == pristine.tables[tblName].cols
              copy == InsertSelectStmt(TempName(tblName), tblName,
                                       CommonColumns(cols, pristineCols))
              drop == DropTableStmt(tblName)
              move == RenameStmt(TempName(tblName), tblName)
              r1 == Exec(live, copy)
              r2 == Exec(r1.db, drop)
              r3 == Exec(r2.db, move)
          IN  IF ~allowDeletions /\ RemovedColumnsOf(cols, pristineCols) # {}
              THEN /\ pc' = "failed"
                   /\ err' = "RefuseRemoveColumns"
                   /\ deferFk' = FALSE
                   /\ UNCHANGED <<live, nChanges, executed>>
              ELSE IF ~r1.ok
              THEN /\ pc' = "failed"
                   /\ err' = "SqliteError"
                   /\ deferFk' = FALSE
                   /\ UNCHANGED <<live, nChanges, executed>>
              ELSE IF ~r2.ok
              THEN /\ pc' = "failed"
                   /\ err' = "SqliteError"
                   /\ deferFk' = FALSE
                   /\ live' = r1.db
                   /\ nChanges' = nChanges + 1
                   /\ executed' = Append(executed, copy)
              ELSE IF ~r3.ok
              THEN /\ pc' = "failed"
                   /\ err' = "SqliteError"
                   /\ deferFk' = FALSE
                   /\ live' = r2.db
                   /\ nChanges' = nChanges + 2
                   /\ executed' = executed \o <<copy, drop>>
              ELSE /\ pc' = "tables"
                   /\ err' = err
                   /\ deferFk' = FALSE
                   /\ live' = r3.db
                   /\ nChanges' = nChanges + 3
                   /\ executed' = executed \o <<copy, drop, move>>
  /\ UNCHANGED <<schema, allowDeletions, pristine,
                 openPristine, normVars, changed, runs, last, pre,
                 newTables, removedTables, modifiedTables, tblName, indices,
                 obsolete, wanted, recreate, leftoverTempTables>>

\* the live indices are read once the table loops are over
ReadIndices ==
  /\ pc = "tables"
  /\ LoopDone(newTables)
  /\ LoopDone(removedTables)
  /\ LoopDone(modifiedTables)
  /\ indices' = [n \in IndexNames(live) |-> live.indices[n].sql]
  /\ obsolete' = IndexNames(live) \ IndexNames(pristine)
  /\ wanted' = IndexNames(pristine)
  /\ deferFk' = FALSE
  /\ pc' = "indices"
  /\ UNCHANGED <<live, schema, allowDeletions, pristine,
                 openPristine, normVars, nChanges, changed,
                 err, runs, last, pre, executed, newTables, removedTables,
                 modifiedTables, tblName, recreate, leftoverTempTables>>

\* for (const name of indices.keys()): Dropping obsolete index
DropObsoleteIndex ==
  /\ pc = "indices"
  /\ \E n \in obsolete :
       /\ obsolete' = obsolete \ {n}
       /\ LogExecute(DropIndexStmt(n), "indices")
  /\ UNCHANGED <<schema, allowDeletions, pristine,
                 openPristine, normVars, changed, runs, last, pre,
                 newTables, removedTables, modifiedTables, tblName, indices,
                 wanted, recreate, leftoverTempTables>>

\* sql !== indices.get(name): the two texts as they are
IndexChanged(sql, liveSql) == sql # liveSql

\* for (const [name, sql] of pristineIndices): a missing index is created,
\* a changed one is dropped (and created again by the next statement)
MigrateIndex ==
  /\ pc = "indices"
  /\ LoopDone(obsolete)
  /\ recreate = NoText
  /\ \E n \in wanted :
       /\ wanted' = wanted \ {n}
       /\ IF n \notin DOMAIN indices
          THEN /\ LogExecute(SqlStmt(pristine.indices[n].sql), "indices")
               /\ recreate' = recreate
          ELSE IF IndexChanged(pristine.indices[n].sql, indices[n])
          THEN /\ LogExecute(DropIndexStmt(n), "indices")
               /\ recreate' = n
          ELSE UNCHANGED <<live, nChanges, executed, pc, err, recreate, deferFk>>
  /\ UNCHANGED <<schema, allowDeletions, pristine,
                 openPristine, normVars, changed, runs, last, pre,
                 newTables, removedTables, modifiedTables, tblName, indices,
                 obsolete, leftoverTempTables>>

\* Index changed: Creating updated version in its place
CreateChangedIndex ==
  /\ pc = "indices"
  /\ recreate # NoText
  /\ recreate' = NoText
  /\ LogExecute(SqlStmt(pristine.indices[recreate].sql), "indices")
  /\ UNCHANGED <<schema, allowDeletions, pristine,
                 openPristine, normVars, changed, runs, last, pre,
                 newTables, removedTables, modifiedTables, tblName, indices,
                 obsolete, wanted, leftoverTempTables>>

\* this.migratePragma('user_version')
MigratePragma ==
  /\ pc = "indices"
  /\ LoopDone(obsolete)
  /\ LoopDone(wanted)
  /\ recreate = NoText
  /\ IF live.user_version # pristine.user_version
     THEN LogExecute(SetUserVersionStmt(pristine.user_version), "fkcheck")
     ELSE /\ pc' = "fkcheck"
          /\ deferFk' = FALSE
          /\ UNCHANGED <<live, nChanges, executed, err>>
  /\ UNCHANGED <<schema, allowDeletions, pristine,
                 openPristine, normVars, changed, runs, last, pre,
                 newTables, removedTables, modifiedTables, tblName, indices,
                 obsolete, wanted, recreate, leftoverTempTables>>

\* query("PRAGMA foreign_keys").get(): one row, an object whose only
\* property is named after the pragma
PragmaRow(db, pragma) ==
  [k \in {pragma} |-> IF pragma = "foreign_keys" THEN db.foreign_keys
                      ELSE db.user_version]

\* row?.[key]: the property, undefined (here 0, as falsy) when the object
\* has no property of that name
Property(row, key) == IF key \in DOMAIN row THEN row[key] ELSE 0

\* the foreign keys of a database: the table, the position of the column and
\* the table it REFERENCES, read from the texts of the catalog
ForeignKeys(db) ==
  LET defs(n) == ColumnDefs(Tokens(db.tables[n].sql, 1), 5, TRUE)
  IN  UNION { { [tbl |-> n, col |-> k, parent |-> defs(n)[k].ref] :
                  k \in {j \in DOMAIN defs(n) : defs(n)[j].ref # NoText} } :
              n \in TableNames(db) }

\* PRAGMA foreign_key_check ends with "foreign key mismatch" when a foreign
\* key names a table that is there but has no such key: no table of the
\* model declares a primary key or a unique index
ForeignKeyMismatch(db) ==
  \E fk \in ForeignKeys(db) : fk.parent \in TableNames(db)

\* PRAGMA foreign_key_check: one row for every row of a table whose foreign
\* key column is not NULL and whose parent table is missing
ForeignKeyCheckRows(db) ==
  UNION { { <<fk.tbl, r, fk.parent>> :
              r \in {q \in DOMAIN db.tables[fk.tbl].rows :
                       db.tables[fk.tbl].rows[q][fk.col] # NoText} } :
          fk \in {f \in ForeignKeys(db) : f.parent \notin TableNames(db)} }

\* the foreign-key check, then the query for the leftover temporary tables
ForeignKeyCheck ==
  /\ pc = "fkcheck"
  /\ IF /\ Property(PragmaRow(pristine, "foreign_keys"), "0") # 0
        /\ ForeignKeyMismatch(live)
     THEN /\ pc' = "failed"
          /\ err' = "SqliteError"
          /\ UNCHANGED leftoverTempTables
     ELSE IF /\ Property(PragmaRow(pristine, "foreign_keys"), "0") # 0
             /\ ForeignKeyCheckRows(live) # {}
     THEN /\ pc' = "failed"
          /\ err' = "ForeignKeyCheck"
          /\ UNCHANGED leftoverTempTables
     ELSE /\ pc' = "cleanup"
          /\ err' = err
          /\ leftoverTempTables' = {n \in TableNames(live) : LikeMigrationNew(n)}
  /\ deferFk' = FALSE
  /\ UNCHANGED <<live, schema, allowDeletions, pristine,
                 openPristine, normVars, nChanges, changed,
                 runs, last, pre, executed, newTables, removedTables,
                 modifiedTables, tblName, indices, obsolete, wanted, recreate>>

\* for (const { name } of leftoverTempTables): DROP TABLE IF EXISTS
DropLeftover ==
  /\ pc = "cleanup"
  /\ \E n \in leftoverTempTables :
       /\ leftoverTempTables' = leftoverTempTables \ {n}
       /\ LogExecute(DropTableIfExistsStmt(n), "cleanup")
  /\ UNCHANGED <<schema, allowDeletions, pristine,
                 openPristine, normVars, changed, runs, last, pre,
                 newTables, removedTables, modifiedTables, tblName, indices,
                 obsolete, wanted, recreate>>

\* migrate returns; dumbMigrateDb returns migrator.nChanges > 0
Return ==
  /\ pc = "cleanup"
  /\ LoopDone(leftoverTempTables)
  /\ pc' = "done"
  /\ changed' = ReturnValue(nChanges)
  /\ UNCHANGED <<live, schema, allowDeletions, pristine,
                 openPristine, normVars, nChanges, deferFk,
                 err, runs, last, pre, executed, newTables, removedTables,
                 modifiedTables, tblName, indices, obsolete, wanted, recreate,
                 leftoverTempTables>>

Next ==
  \/ Construct
  \/ Classify
  \/ CreateNewTable
  \/ DropRemovedTable
  \/ RebuildCreate
  \/ RebuildColumns
  \/ ReadIndices
  \/ DropObsoleteIndex
  \/ MigrateIndex
  \/ CreateChangedIndex
  \/ MigratePragma
  \/ ForeignKeyCheck
  \/ DropLeftover
  \/ Return

Spec == Init /\ [][Next]_vars

TypeOK ==
  /\ pc \in {"idle", "constructed", "tables", "columns", "indices", "fkcheck",
             "cleanup", "done", "failed"}
  /\ runs \in 0..MaxRuns
  /\ nChanges \in Nat

\* ------------------------------------------------- normaliseSql by itself
\* The texts normaliseSql is given, and the ways of writing a text that the
\* function is there to take away.
MaxTextLen == 5      \* characters of a text

NormChars == {"a", "\"", " ", "(", "-", "\n"}

Texts == UNION { [1..n -> NormChars] : n \in 0..MaxTextLen }

\* what each position of s from i on holds, as SQLite's tokenizer reads s:
\* "dash" the two characters that open a comment, "text" the text of the
\* comment, "eol" the newline that ends it, "quoted" a quoted identifier with
\* its double quotes, "code" everything else
RECURSIVE Kinds(_, _)
Kinds(s, i) ==
  IF i > Len(s) THEN << >>
  ELSE IF s[i] = "-" /\ i < Len(s) /\ s[i + 1] = "-"
       THEN LET n == NextNewline(s, i + 2)
            IN  IF n = 0
                THEN <<"dash", "dash">> \o [k \in 1..(Len(s) - i - 1) |-> "text"]
                ELSE <<"dash", "dash">> \o [k \in 1..(n - i - 2) |-> "text"]
                     \o <<"eol">> \o Kinds(s, n + 1)
  ELSE IF s[i] = "\""
       THEN LET j == NextQuote(s, i + 1)
                end == IF j > Len(s) THEN Len(s) ELSE j
            IN  [k \in 1..(end - i + 1) |-> "quoted"] \o Kinds(s, end + 1)
  ELSE <<"code">> \o Kinds(s, i + 1)

\* s with c put in after position k
Insert(s, k, c) == SubSeq(s, 1, k) \o <<c>> \o SubSeq(s, k + 1, Len(s))

\* the text of a comment changed in one character
VaryComment ==
  /\ step = "input"
  /\ \E k \in DOMAIN input, c \in NormChars \ {"\n"} :
       /\ Kinds(input, 1)[k] = "text"
       /\ c # input[k]
       /\ variant' = [input EXCEPT ![k] = c]
  /\ step' = "varied"
  /\ UNCHANGED <<migrateVars, input, result, variantResult>>

\* a run of whitespace between tokens made one character longer
VarySpace ==
  /\ step = "input"
  /\ \E k \in DOMAIN input, c \in {" ", "\n"} :
       /\ Kinds(input, 1)[k] = "code"
       /\ IsSpace(input[k])
       /\ variant' = Insert(input, k, c)
  /\ step' = "varied"
  /\ UNCHANGED <<migrateVars, input, result, variantResult>>

\* a blank put before or after a ( ) or ,
VaryPunctSpace ==
  /\ step = "input"
  /\ \E k \in DOMAIN input, d \in {0, 1} :
       /\ Kinds(input, 1)[k] = "code"
       /\ input[k] \in PunctChars
       /\ variant' = Insert(input, k - d, " ")
  /\ step' = "varied"
  /\ UNCHANGED <<migrateVars, input, result, variantResult>>

\* an identifier of word characters put in double quotes
VaryQuotes ==
  /\ step = "input"
  /\ \E k \in DOMAIN input :
       LET kinds == Kinds(input, 1)
           e == SkipWord(input, k) - 1
       IN  /\ kinds[k] = "code"
           /\ IsWord(input[k])
           /\ IF k = 1 THEN TRUE
              ELSE ~IsWord(input[k - 1]) /\ kinds[k - 1] # "quoted"
           /\ IF e = Len(input) THEN TRUE ELSE kinds[e + 1] # "quoted"
           /\ variant' = Insert(Insert(input, e, "\""), k - 1, "\"")
  /\ step' = "varied"
  /\ UNCHANGED <<migrateVars, input, result, variantResult>>

\* normaliseSql on the text and on its other way of writing
Normalise ==
  /\ step \in {"input", "varied"}
  /\ result' = normaliseSql(input)
  /\ variantResult' = normaliseSql(variant)
  /\ step' = "normalised"
  /\ UNCHANGED <<migrateVars, input, variant>>

NormInit ==
  /\ live = EmptyDb
  /\ schema = << >>
  /\ allowDeletions = FALSE
  /\ NoCall
  /\ input \in Texts
  /\ variant = input
  /\ result = NoText
  /\ variantResult = NoText
  /\ step = "input"

NormNext ==
  \/ VaryComment
  \/ VarySpace
  \/ VaryPunctSpace
  \/ VaryQuotes
  \/ Normalise

NormSpec == NormInit /\ [][NormNext]_vars

\* ------------------------------------------ the temporary name by itself
\* The CREATE TABLE texts a schema can hold for a table, with the table's
\* name also in use as the name of a column or of the table a column
\* REFERENCES, and the rewrite of line 145 applied to each.
RewriteNames == {<<"t">>, <<"c">>, <<"t", "c">>}

ColumnNames == RewriteNames \cup {<<"a">>}

\* CREATE TABLE n (c1, c2) and CREATE TABLE n (c1, c2 REFERENCES r)
TableDefinitions ==
  { CreateTablePrefix \o n \o <<" ", "(">> \o c1 \o <<",", " ">> \o c2 \o tail \o <<")">> :
      n \in RewriteNames,
      c1 \in ColumnNames,
      c2 \in ColumnNames,
      tail \in {NoText} \cup {Sp \o KwReferences \o Sp \o r : r \in RewriteNames} }

\* the name under which the catalog holds a CREATE TABLE text
TableNameOf(createTableSql) == Tokens(createTableSql, 1)[3]

\* const newTableSql = createTableSql.replace(...) for the table of the text
Rewrite ==
  /\ step = "definition"
  /\ tblName' = TableNameOf(input)
  /\ result' = NewTableSql(input, TableNameOf(input))
  /\ step' = "rewritten"
  /\ UNCHANGED <<live, schema, allowDeletions, pristine, nChanges, changed,
                 deferFk, pc, err, runs, last, pre, executed, newTables,
                 removedTables, modifiedTables, indices, obsolete, wanted,
                 recreate, leftoverTempTables, openPristine, input, variant,
                 variantResult>>

RewriteInit ==
  /\ live = EmptyDb
  /\ schema = << >>
  /\ allowDeletions = FALSE
  /\ NoCall
  /\ input \in {d \in TableDefinitions :
                  LET defs == ColumnDefs(Tokens(d, 1), 5, TRUE)
                  IN  defs[1].name # defs[2].name}
  /\ variant = input
  /\ result = NoText
  /\ variantResult = NoText
  /\ step = "definition"

RewriteNext == Rewrite

RewriteSpec == RewriteInit /\ [][RewriteNext]_vars

\* ================================================================ claims
\* migrate has got past its table deletion guard, or was stopped by it
Classified == pc \notin {"idle", "constructed"} /\ err # "SchemaLoadError"

Ended == pc \in {"done", "failed"} /\ err # "SchemaLoadError"

\* the live database held, when the call started, a table that the schema
\* does not have and whose name does not end in _migration_new
HasRemovedUserTable ==
  \E n \in TableNames(pre) \ TableNames(pristine) : ~EndsWithSuffix(n)

SameCanonicalSql(a, b) == normaliseSql(a) = normaliseSql(b)

TablesMatch(db) ==
  /\ TableNames(db) = TableNames(pristine)
  /\ \A n \in TableNames(db) \cap TableNames(pristine) :
       SameCanonicalSql(db.tables[n].sql, pristine.tables[n].sql)

IndicesMatch(db) ==
  /\ IndexNames(db) = IndexNames(pristine)
  /\ \A n \in IndexNames(db) \cap IndexNames(pristine) :
       SameCanonicalSql(db.indices[n].sql, pristine.indices[n].sql)

PragmasMatch(db) ==
  /\ db.user_version = pristine.user_version
  /\ db.foreign_keys = pristine.foreign_keys

\* the table was in the database when the call started, the schema has it
\* too, and the two canonical texts differ
WasModified(n) ==
  /\ n \in TableNames(pre)
  /\ n \in TableNames(pristine)
  /\ ~SameCanonicalSql(pre.tables[n].sql, pristine.tables[n].sql)

LostColumns(n) ==
  {pre.tables[n].cols[k] : k \in DOMAIN pre.tables[n].cols}
    \ {pristine.tables[n].cols[k] : k \in DOMAIN pristine.tables[n].cols}

\* the call has run a statement of the given kind on the table
Ran(op, n) == \E k \in DOMAIN executed : executed[k].op = op /\ executed[k].name = n

\* the call has created the temporary table of n
RebuildStarted(n) ==
  /\ n \in TableNames(pristine)
  /\ \E k \in DOMAIN executed :
       executed[k] = SqlStmt(NewTableSql(pristine.tables[n].sql, n))

\* C1: when the live database has a table that the schema does not have (its
\* name not ending in _migration_new) and allowDeletions is false, migrate
\* fails with the refusal, runs no statement (not even the PRAGMA that defers
\* the foreign keys), and the live database is what it was before the call.
C1_TableDeletionGuard ==
  (Classified /\ ~allowDeletions /\ HasRemovedUserTable)
    => /\ pc = "failed"
       /\ err = "RefuseDeleteTables"
       /\ executed = << >>
       /\ nChanges = 0
       /\ deferFk = FALSE
       /\ live = pre

C1_Witness ==
  /\ pc = "failed"
  /\ err = "RefuseDeleteTables"
  /\ ~allowDeletions
  /\ HasRemovedUserTable
  /\ \E n \in TableNames(live) : live.tables[n].rows # << >>

\* C2: after a call that returned without error the live table names are the
\* schema's table names and every live table has the canonical text of the
\* schema's table of that name.
C2_TablesMatchAfterSuccess == pc = "done" => TablesMatch(live)

\* C3: after a call that returned without error the live index names are the
\* schema's index names.
C3_IndicesMatchAfterSuccess ==
  pc = "done" => IndexNames(live) = IndexNames(pristine)

\* C4: when the tables, indices and tracked pragmas of the live database match
\* the schema under canonical equality, migrate runs no statement, nChanges
\* stays 0 and the call returns changed = false.
C4_NoOp ==
  (Classified /\ TablesMatch(pre) /\ IndicesMatch(pre) /\ PragmasMatch(pre))
    => /\ executed = << >>
       /\ nChanges = 0
       /\ pc # "failed"
       /\ (pc = "done" => ~changed)

\* C5: a call that follows a call that returned without error, with the same
\* schema and the same allowDeletions, runs no statement and returns
\* changed = false.
C5_SecondRunIdle ==
  (last = "done" /\ pc # "idle")
    => /\ executed = << >>
       /\ pc # "failed"
       /\ (pc = "done" => ~changed)

\* the table has the schema's columns and the rows it had before the call,
\* each with its old value in the columns it had and the declared default in
\* the columns that are new
RowsPreserved(n) ==
  /\ n \in TableNames(live)
  /\ live.tables[n].cols = pristine.tables[n].cols
  /\ Len(live.tables[n].rows) = Len(pre.tables[n].rows)
  /\ \A r \in DOMAIN live.tables[n].rows :
       \A k \in DOMAIN live.tables[n].cols :
         LET c == live.tables[n].cols[k]
             old == {j \in DOMAIN pre.tables[n].cols : pre.tables[n].cols[j] = c}
         IN  IF old # {}
             THEN \A j \in old : live.tables[n].rows[r][k] = pre.tables[n].rows[r][j]
             ELSE live.tables[n].rows[r][k] = pristine.tables[n].dflt[k]

C7_ColumnDeletionGuard ==
  \A n \in TableNames(pre) :
    (Classified /\ ~allowDeletions /\ WasModified(n) /\ LostColumns(n) # {})
      => /\ pc # "done"
         /\ ~Ran("InsertSelect", TempName(n))
         /\ ~Ran("DropTable", n)
         /\ ~Ran("Rename", n)
         /\ n \in TableNames(live)
         /\ live.tables[n] = pre.tables[n]

C7_Witness ==
  \E n \in TableNames(pre) :
    /\ pc = "failed"
    /\ err = "SqliteError"
    /\ ~allowDeletions
    /\ WasModified(n)
    /\ LostColumns(n) # {}
    /\ RebuildStarted(n)
    /\ pre.tables[n].rows # << >>

\* C8: a live table whose name ends in _migration_new and that the schema does
\* not have is never in removedTables: the deletion refusal is raised only for
\* a table without the suffix, and the removed-tables loop never drops it.
C8_TempNeverRemoved ==
  /\ \A n \in removedTables : ~EndsWithSuffix(n)
  /\ (err = "RefuseDeleteTables" => HasRemovedUserTable)
  /\ \A k \in DOMAIN executed :
       (executed[k].op = "DropTable" /\ executed[k].name \notin TableNames(pristine))
         => ~EndsWithSuffix(executed[k].name)

C8_Witness ==
  /\ pc = "tables"
  /\ ~allowDeletions
  /\ \E n \in TableNames(live) \ TableNames(pristine) : EndsWithSuffix(n)

\* C9: when a call has ended, normally or with an error, the live database has
\* no table whose name ends in _migration_new.
C9_NoTempAtEnd ==
  Ended => \A n \in TableNames(live) : ~EndsWithSuffix(n)

\* C10: a call that starts on the database an interrupted rebuild left (the
\* modified table and its temporary table both there), with the schema and
\* the authorization of the interrupted call, returns without error and
\* leaves the live tables equal to the schema's.
C10_RerunAfterInterruption ==
  \A n \in TableNames(pre) :
    (/\ Ended
     /\ err # "RefuseDeleteTables"
     /\ WasModified(n)
     /\ TempName(n) \in TableNames(pre))
      => (pc = "done" /\ TablesMatch(live))

\* the schema turns foreign-key enforcement on
TargetEnforcesForeignKeys == pristine.foreign_keys = 1

\* C11: when the schema enables foreign_keys and the live database, the plan's
\* statements having run, holds a row that breaks a foreign key, the call
\* fails: it never returns normally on such a database.
C11_ForeignKeyPostCheck ==
  (pc = "done" /\ TargetEnforcesForeignKeys) => ForeignKeyCheckRows(live) = {}

C13_SchemaLoadFailure ==
  err = "SchemaLoadError"
    => /\ pc = "failed"
       /\ executed = << >>
       /\ nChanges = 0
       /\ live = pre

C13_Witness ==
  /\ pc = "failed"
  /\ err = "SchemaLoadError"
  /\ \E n \in TableNames(live) : live.tables[n].rows # << >>

\* C14: nChanges is the number of statements the call has run on the live
\* database, every one of them carrying SQL, and a call that returns returns
\* changed = true exactly when nChanges > 0.
C14_ChangeAccounting ==
  /\ nChanges = Len(executed)
  /\ \A k \in DOMAIN executed : HasSql(executed[k])
  /\ (pc = "done" => (changed <=> nChanges > 0))

C14_Witness ==
  /\ pc = "done"
  /\ changed
  /\ nChanges >= 2
  /\ live # pre

\* C15: an error of a statement ends the call at once, and the live database
\* is then the database of the start with the statements before the failing
\* one applied, each once and in their order: nothing ran after the failure,
\* nothing ran twice, nothing was reverted.
C15_StopAndReport ==
  /\ (err # "none" => pc = "failed")
  /\ (pc = "failed" /\ err = "SqliteError")
       => /\ ExecAll(pre, executed, 1) = Ok(live)
          /\ nChanges = Len(executed)

\* the creation of a temporary table failed after another statement had run
C15_Witness ==
  /\ pc = "failed"
  /\ err = "SqliteError"
  /\ executed # << >>
  /\ live # pre
  /\ tblName # NoText
  /\ ~RebuildStarted(tblName)

\* C18: when a call has ended, normally or with any error, the in-memory
\* database built from the schema text is closed.
C18_PristineClosed ==
  pc \in {"done", "failed"} => openPristine = 0

\* the statements of the given kind that the call has run
Statements(op) == {k \in DOMAIN executed : executed[k].op = op}

\* C19: a call that returns has run, for each of user_version and
\* foreign_keys, one statement setting it to the schema's value when the live
\* value differed from the schema's, and no statement for it when it did not.
C19_PragmaReconciliation ==
  pc = "done"
    => /\ IF pre.user_version # pristine.user_version
          THEN /\ Cardinality(Statements("SetUserVersion")) = 1
               /\ \A k \in Statements("SetUserVersion") :
                    executed[k].val = pristine.user_version
          ELSE Statements("SetUserVersion") = {}
       /\ IF pre.foreign_keys # pristine.foreign_keys
          THEN /\ Cardinality(Statements("SetForeignKeys")) = 1
               /\ \A k \in Statements("SetForeignKeys") :
                    executed[k].val = pristine.foreign_keys
          ELSE Statements("SetForeignKeys") = {}

\* the step of the plan a statement belongs to: 1 the creation of a new
\* table, 2 the drop of a removed table, 3 a statement of a rebuild, 4 an
\* index drop or creation, 5 a pragma, 6 the drop of a leftover table
Phase(st) ==
  CASE st.op = "Sql" /\ IsCreateIndex(st.text) -> 4
    [] st.op = "DropIndex" -> 4
    [] st.op \in {"SetUserVersion", "SetForeignKeys"} -> 5
    [] st.op = "DropTableIfExists" -> 6
    [] st.op \in {"InsertSelect", "Rename"} -> 3
    [] st.op = "DropTable" /\ st.name \in TableNames(pristine) -> 3
    [] st.op = "DropTable" -> 2
    [] st.op = "Sql"
         /\ \E n \in TableNames(pristine) \cap TableNames(pre) :
              st.text = NewTableSql(pristine.tables[n].sql, n) -> 3
    [] st.op = "Sql"
         /\ \E n \in TableNames(pristine) \ TableNames(pre) :
              st.text = pristine.tables[n].sql -> 1
    [] OTHER -> 0

\* C20: the statements of a call run in the order of the plan: new tables,
\* removed tables, rebuilds, indices, pragmas, leftover tables.
C20_PlanOrder ==
  pc # "idle" /\ err # "SchemaLoadError"
    => /\ \A k \in DOMAIN executed : Phase(executed[k]) >= 1
       /\ \A j, k \in DOMAIN executed :
            j < k => Phase(executed[j]) <= Phase(executed[k])

C20_Witness ==
  /\ pc = "done"
  /\ {Phase(executed[k]) : k \in DOMAIN executed} = {1, 2, 4, 5, 6}

\* a rebuild began after a new table was created and a removed one dropped
C20_RebuildWitness ==
  /\ pc = "failed"
  /\ {Phase(executed[k]) : k \in DOMAIN executed} = {1, 2, 3}

\* C16: normaliseSql applied to its own result gives that result again.
C16_Idempotent ==
  step = "normalised" => normaliseSql(result) = result

\* the text is one quoted identifier that holds a character that is not a
\* word character
QuotedNonWord(s) ==
  /\ Len(s) >= 3
  /\ s[1] = "\"" /\ s[Len(s)] = "\""
  /\ \A k \in 2..(Len(s) - 1) : s[k] # "\""
  /\ \E k \in 2..(Len(s) - 1) : ~IsWord(s[k])

\* C17: a text and the same text with the text of a comment changed (also of
\* a comment on the last line), a whitespace run lengthened, a blank put next
\* to ( ) or , or a word identifier put in double quotes have the same
\* normalised form; a quoted identifier with a character that is not a word
\* character keeps its quotes.
C17_CosmeticVariantsEqual ==
  step = "normalised"
    => /\ result = variantResult
       /\ QuotedNonWord(input)
            => /\ Len(result) >= 2
               /\ result[1] = "\"" /\ result[Len(result)] = "\""

RowsHeld(n) ==
  /\ n \in TableNames(live)
  /\ \A j \in DOMAIN pre.tables[n].cols :
       \E k \in DOMAIN live.tables[n].cols :
         live.tables[n].cols[k] = pre.tables[n].cols[j]
  /\ \A r \in DOMAIN pre.tables[n].rows :
       \E q \in DOMAIN live.tables[n].rows :
         \A j \in DOMAIN pre.tables[n].cols, k \in DOMAIN live.tables[n].cols :
           live.tables[n].cols[k] = pre.tables[n].cols[j]
             => live.tables[n].rows[q][k] = pre.tables[n].rows[r][j]

\* C22: with allowDeletions false, at every statement boundary of a call
\* (the first or a later one on the same database and schema) every table of
\* the schema that was in the live database when the call started is still
\* there and holds every row it held then.
C22_NoDataLoss ==
  (~allowDeletions /\ pc # "idle" /\ err # "SchemaLoadError")
    => \A n \in TableNames(pre) \cap TableNames(pristine) : RowsHeld(n)

\* C23: when the index loops of a call are over, an index that was in the
\* live database and is in the schema has been dropped and then created from
\* the schema's text when the canonical forms of its two texts differ, and
\* has been the object of no statement when they are equal.
C23_ChangedIndex ==
  pc \in {"fkcheck", "cleanup", "done"}
    => \A n \in DOMAIN indices \cap IndexNames(pristine) :
         LET drops == {k \in DOMAIN executed : executed[k] = DropIndexStmt(n)}
             creates == {k \in DOMAIN executed :
                           executed[k] = SqlStmt(pristine.indices[n].sql)}
         IN  IF SameCanonicalSql(indices[n], pristine.indices[n].sql)
             THEN drops = {} /\ creates = {}
             ELSE /\ Cardinality(drops) = 1
                  /\ Cardinality(creates) = 1
                  /\ \A j \in drops, k \in creates : j < k

\* the call is past its table deletion guard and has run no statement yet
LoopsNotBegun == pc = "tables" /\ executed = << >>

\* C24: when the call has classified the tables, newTables holds the schema's
\* names that the live database does not have, removedTables the live names
\* that the schema does not have and that do not end in _migration_new (also
\* when the table deletion guard then refuses), modifiedTables the names on
\* both sides whose canonical texts differ; no name is in two of the sets,
\* and a table whose canonical text is the same on both sides is in none.
C24_Classification ==
  /\ (LoopsNotBegun \/ err = "RefuseDeleteTables")
       => removedTables = {n \in TableNames(live) \ TableNames(pristine) :
                             ~EndsWithSuffix(n)}
  /\ LoopsNotBegun
       => /\ newTables = TableNames(pristine) \ TableNames(live)
          /\ modifiedTables =
               {n \in TableNames(live) \cap TableNames(pristine) :
                  ~SameCanonicalSql(live.tables[n].sql, pristine.tables[n].sql)}
          /\ newTables \cap removedTables = {}
          /\ newTables \cap modifiedTables = {}
          /\ removedTables \cap modifiedTables = {}
          /\ \A n \in TableNames(live) \cap TableNames(pristine) :
               SameCanonicalSql(live.tables[n].sql, pristine.tables[n].sql)
                 => n \notin newTables \cup removedTables \cup modifiedTables

\* a new table, a removed one, a leftover temporary table that is kept out of
\* removedTables, and a table written another way that is in no set
C24_Witness ==
  /\ LoopsNotBegun
  /\ newTables # {}
  /\ removedTables # {}
  /\ \E n \in TableNames(live) \ TableNames(pristine) : EndsWithSuffix(n)
  /\ \E n \in TableNames(live) \cap TableNames(pristine) :
       /\ live.tables[n].sql # pristine.tables[n].sql
       /\ n \notin modifiedTables

\* all three sets with a table in them
C24_ModifiedWitness ==
  /\ LoopsNotBegun
  /\ newTables # {}
  /\ removedTables # {}
  /\ modifiedTables # {}

\* C25: the step that takes a call past its table deletion guard switches
\* deferred foreign-key enforcement on, the first statement of a call runs
\* only after that step, and the step in which the guard refuses leaves the
\* setting off.
C25_DeferredForeignKeys ==
  [][ /\ (pc = "constructed" /\ pc' = "tables") => deferFk'
      /\ (executed = << >> /\ executed' # << >>)
           => pc \in {"tables", "indices", "cleanup"}
      /\ (pc = "constructed" /\ err' = "RefuseDeleteTables")
           => ~deferFk /\ ~deferFk' ]_vars

\* the setting is on and the first statement of the call is about to run
C25_Witness ==
  /\ pc = "tables"
  /\ deferFk
  /\ executed = << >>
  /\ newTables \cup removedTables \cup modifiedTables # {}

\* the second call on a database is refused by the table deletion guard
C25_RefusedWitness ==
  /\ err = "RefuseDeleteTables"
  /\ ~deferFk
  /\ runs = 2

\* C26: the rewritten text is the CREATE TABLE text with the name of the
\* created table, its third token, replaced by the temporary name, and every
\* other token (column names, the table a column REFERENCES) as it was.
C26_RewriteOnlyTableName ==
  step = "rewritten"
    => Tokens(result, 1) = [Tokens(input, 1) EXCEPT ![3] = TempName(tblName)]

\* C27: the tables that the cleanup has dropped or is still to drop are the
\* live tables whose names end in _migration_new, and no table whose name
\* does not end in _migration_new is dropped by it.
C27_CleanupDropsOnlySuffix ==
  LET dropped == {executed[k].name : k \in Statements("DropTableIfExists")}
  IN  /\ \A n \in dropped : EndsWithSuffix(n)
      /\ pc \in {"cleanup", "done"}
           => leftoverTempTables \cup dropped
                = {n \in TableNames(live) \cup dropped : EndsWithSuffix(n)}

\* the table a statement is about, NoText for a statement about an index or
\* a pragma
ObjectOf(st) ==
  IF st.op \in {"DropTable", "DropTableIfExists", "InsertSelect", "Rename"}
  THEN st.name
  ELSE IF st.op = "Sql" /\ IsCreateTable(st.text)
  THEN Tokens(st.text, 1)[3]
  ELSE NoText

\* C28: a table that was in the live database when the call started and whose
\* canonical text is the schema's is, at every point of the call, in the live
\* database with the text and the rows it had, and no statement of the call
\* is about it or reads from it.
C28_UnchangedTableFrame ==
  (pc # "idle" /\ err # "SchemaLoadError")
    => \A n \in TableNames(pre) \cap TableNames(pristine) :
         SameCanonicalSql(pre.tables[n].sql, pristine.tables[n].sql)
           => /\ n \in TableNames(live)
              /\ live.tables[n] = pre.tables[n]
              /\ \A k \in DOMAIN executed :
                   /\ ObjectOf(executed[k]) # n
                   /\ executed[k].op = "InsertSelect" => executed[k].text # n

====
